---------------------------- MODULE Spec2Model ----------------------------
(***************************************************************************)
(* A model of src/app.py: the GA4 MCP HTTP server.                         *)
(*                                                                         *)
(* One process serves requests one at a time (the handlers are coroutines  *)
(* of one event loop and the backend call is a blocking call).  The only   *)
(* process-wide state is AUTH_TOKEN, read once at import.  A request is    *)
(* followed through its handler step by step: the bearer check, the body   *)
(* parse and tool/method check, the query construction of run_ga4_report,  *)
(* the backend call, the flattening of the reply, and the response.        *)
(*                                                                         *)
(* JSON values (and Python's None) are tagged records:                     *)
(*   [k |-> "null"], [k |-> "str", s |-> ..], [k |-> "int", n |-> ..],     *)
(*   [k |-> "list", items |-> <<..>>], [k |-> "dict", <key> |-> <value>..] *)
(* A key a dict does not hold is either outside the record's domain or     *)
(* bound to Absent.  No dict of the model uses the key "k".                *)
(***************************************************************************)
EXTENDS Integers, Sequences, FiniteSets, TLC

VARIABLES
    AUTH_TOKEN,     \* os.environ.get("MCP_AUTH_TOKEN"): Null or a Str
    pc,             \* position of the request in flight
    request,        \* [endpoint, authorization, body]
    args,           \* the arguments handed to run_ga4_report
    query,          \* the RunReportRequest built by run_ga4_report
    outcome,        \* what client.run_report did: a reply or an exception
    result,         \* the value run_ga4_report returns
    raised,         \* the exception run_ga4_report raised
    response,       \* the HTTP response sent
    trace,          \* the steps taken for the request in flight, in order
    backendCalls    \* client.run_report invocations for the request in flight

vars == <<AUTH_TOKEN, pc, request, args, query, outcome, result, raised,
          response, trace, backendCalls>>

----------------------------------------------------------------------------
(* JSON / Python values *)

Absent == [k |-> "absent"]
Null == [k |-> "null"]
Str(s) == [k |-> "str", s |-> s]
Num(n) == [k |-> "int", n |-> n]
List(xs) == [k |-> "list", items |-> xs]
EmptyDict == [k |-> "dict"]

Keys(d) == {f \in DOMAIN d \ {"k"} : d[f] # Absent}

\* key in d, for a dict d
Has(d, key) == key \in Keys(d)

\* d.get(key): None when the key is absent
Get(d, key) == IF Has(d, key) THEN d[key] ELSE Null

\* d.get(key, default)
GetDefault(d, key, default) == IF Has(d, key) THEN d[key] ELSE default

\* Python truthiness: bool(v)
Truthy(v) ==
    CASE v.k = "absent" -> FALSE
      [] v.k = "null" -> FALSE
      [] v.k = "str" -> v.s # ""
      [] v.k = "int" -> v.n # 0
      [] v.k = "list" -> Len(v.items) > 0
      [] v.k = "dict" -> Keys(v) # {}
      [] OTHER -> TRUE

\* type(v).__name__
TypeName(v) ==
    CASE v.k = "null" -> "NoneType"
      [] v.k = "str" -> "str"
      [] v.k = "int" -> "int"
      [] v.k = "list" -> "list"
      [] v.k = "dict" -> "dict"
      [] OTHER -> "object"

\* str(v) as an f-string renders it, for None, strings and integers
PyStr(v) ==
    CASE v.k = "str" -> v.s
      [] v.k = "int" -> ToString(v.n)
      [] OTHER -> "None"

----------------------------------------------------------------------------
(* Strings *)

Whitespace == {" ", "\t", "\n", "\r"}

\* s.startswith(p)
StartsWith(s, p) == Len(s) >= Len(p) /\ SubSeq(s, 1, Len(p)) = p

\* s.split(" ", 1)[1], for a string holding a space: what follows the first space
AfterFirstSpace(s) ==
    LET i == CHOOSE j \in 1..Len(s) :
                 /\ SubSeq(s, j, j) = " "
                 /\ \A h \in 1..(j - 1) : SubSeq(s, h, h) # " "
    IN SubSeq(s, i + 1, Len(s))

\* s.strip()
Strip(s) ==
    LET keep == {i \in 1..Len(s) : SubSeq(s, i, i) \notin Whitespace}
    IN IF keep = {} THEN ""
       ELSE LET lo == CHOOSE i \in keep : \A j \in keep : i <= j
                hi == CHOOSE i \in keep : \A j \in keep : i >= j
            IN SubSeq(s, lo, hi)

\* sub in s, for strings
Contains(s, sub) ==
    \E i \in 1..(Len(s) - Len(sub) + 1) : SubSeq(s, i, i + Len(sub) - 1) = sub

----------------------------------------------------------------------------
(* Exceptions and responses *)

NoExc == [exc |-> "none", arg |-> ""]
KeyError(key) == [exc |-> "KeyError", arg |-> key]
TypeError(msg) == [exc |-> "TypeError", arg |-> msg]
ValueError(msg) == [exc |-> "ValueError", arg |-> msg]

NoResponse == [status |-> 0, body |-> [kind |-> "none"]]

\* FastAPI's rendering of raise HTTPException(status_code, detail)
HTTPException(status, detail) ==
    [status |-> status, body |-> [kind |-> "detail", detail |-> detail]]

\* An exception no handler catches: the framework answers 500 Internal Server Error
ServerFault == [status |-> 500, body |-> [kind |-> "fault"]]

\* JSONResponse(content, status_code)
JSONResponse(content, status) == [status |-> status, body |-> content]

----------------------------------------------------------------------------
(* Auth helper *)

RequireBearerSwapped(token, header) ==
    IF ~StartsWith(header, "Bearer ")
    THEN HTTPException(401, "Missing bearer token")
    ELSE IF ~Truthy(token)
    THEN HTTPException(500, "Server missing MCP_AUTH_TOKEN")
    ELSE IF Strip(AfterFirstSpace(header)) # token.s
    THEN HTTPException(401, "Invalid token")
    ELSE NoResponse

RequireBearerAnyToken(token, header) ==
    IF ~Truthy(token)
    THEN HTTPException(500, "Server missing MCP_AUTH_TOKEN")
    ELSE IF ~StartsWith(header, "Bearer ")
    THEN HTTPException(401, "Missing bearer token")
    ELSE NoResponse

\* require_bearer: the HTTPException it raises, or NoResponse when it returns
RequireBearer(token, header) ==
    IF ~Truthy(token)
    THEN HTTPException(500, "Server missing MCP_AUTH_TOKEN")
    ELSE IF ~StartsWith(header, "Bearer ")
    THEN HTTPException(401, "Missing bearer token")
    ELSE IF Strip(AfterFirstSpace(header)) # token.s
    THEN HTTPException(401, "Invalid token")
    ELSE NoResponse

----------------------------------------------------------------------------
(* Shared GA4 logic: query construction *)

\* The exception v[key] raises for a string key, or NoExc
SubscriptExc(v, key) ==
    CASE v.k = "dict" -> IF Has(v, key) THEN NoExc ELSE KeyError(key)
      [] v.k = "list" -> TypeError("list indices must be integers or slices, not str")
      [] v.k = "str" -> TypeError("string indices must be integers")
      [] OTHER -> TypeError("'" \o TypeName(v) \o "' object is not subscriptable")

\* The keys of a dict in some order
KeySeq(d) ==
    LET n == Cardinality(Keys(d))
    IN CHOOSE s \in [1..n -> Keys(d)] : \A i, j \in 1..n : s[i] = s[j] => i = j

\* What iterating over v yields: the items of a list, the characters of a
\* string, the keys of a dict
Elements(v) ==
    CASE v.k = "list" -> v.items
      [] v.k = "str" -> [i \in 1..Len(v.s) |-> Str(SubSeq(v.s, i, i))]
      [] v.k = "dict" -> [i \in 1..Cardinality(Keys(v)) |-> Str(KeySeq(v)[i])]
      [] OTHER -> <<>>

\* The exception iter(v) raises, or NoExc
IterExc(v) ==
    IF v.k \in {"list", "str", "dict"} THEN NoExc
    ELSE TypeError("'" \o TypeName(v) \o "' object is not iterable")

\* The first exception of a sequence of outcomes, or NoExc
FirstExc(excs) ==
    LET bad == {i \in 1..Len(excs) : excs[i] # NoExc}
    IN IF bad = {} THEN NoExc
       ELSE excs[CHOOSE i \in bad : \A j \in bad : i <= j]

\* The exception of [f(x[key1], x[key2], ..) for x in v], or NoExc
ComprehensionExc(v, keys) ==
    IF IterExc(v) # NoExc THEN IterExc(v)
    ELSE LET items == Elements(v)
         IN FirstExc([i \in 1..Len(items) |->
                FirstExc([j \in 1..Len(keys) |-> SubscriptExc(items[i], keys[j])])])

\* The names [x["name"] for x in v] reads, for a v the comprehension accepts
Names(v) == [i \in 1..Len(Elements(v)) |-> Elements(v)[i]["name"]]

DigitValue ==
    [c \in {"0", "1", "2", "3", "4", "5", "6", "7", "8", "9"} |->
        CASE c = "0" -> 0 [] c = "1" -> 1 [] c = "2" -> 2 [] c = "3" -> 3
          [] c = "4" -> 4 [] c = "5" -> 5 [] c = "6" -> 6 [] c = "7" -> 7
          [] c = "8" -> 8 [] c = "9" -> 9]

IsDecimal(s) ==
    Len(s) > 0 /\ \A i \in 1..Len(s) : SubSeq(s, i, i) \in DOMAIN DigitValue

RECURSIVE DecimalValue(_)
DecimalValue(s) ==
    IF Len(s) = 0 THEN 0
    ELSE 10 * DecimalValue(SubSeq(s, 1, Len(s) - 1))
         + DigitValue[SubSeq(s, Len(s), Len(s))]

\* The exception int(v) raises, or NoExc (unsigned decimal strings and integers)
IntExc(v) ==
    CASE v.k = "int" -> NoExc
      [] v.k = "str" ->
           IF IsDecimal(Strip(v.s)) THEN NoExc
           ELSE ValueError("invalid literal for int() with base 10: '" \o v.s \o "'")
      [] OTHER ->
           TypeError("int() argument must be a string, a bytes-like object or a real number, not '"
                     \o TypeName(v) \o "'")

\* int(v), for a v int() accepts
IntValue(v) == IF v.k = "int" THEN v.n ELSE DecimalValue(Strip(v.s))

NoFilter == [field_name |-> "", value |-> "", match_type |-> "NONE"]

\* "eventName" in df: the exception it raises, or NoExc
InExc(df) ==
    IF df.k \in {"list", "str", "dict"} THEN NoExc
    ELSE TypeError("argument of type '" \o TypeName(df) \o "' is not iterable")

\* "eventName" in df, for a df the test accepts
InValue(df) ==
    CASE df.k = "dict" -> Has(df, "eventName")
      [] df.k = "list" -> \E i \in 1..Len(df.items) : df.items[i] = Str("eventName")
      [] df.k = "str" -> Contains(df.s, "eventName")
      [] OTHER -> FALSE

\* build_dimension_filter: the exception it raises, or NoExc
BuildDimensionFilterExc(a) ==
    LET df == Get(a, "dimensionFilter")
    IN IF ~Truthy(df) THEN NoExc
       ELSE IF InExc(df) # NoExc THEN InExc(df)
       ELSE IF InValue(df) THEN SubscriptExc(df, "eventName")
       ELSE NoExc

\* build_dimension_filter: the FilterExpression it returns, NoFilter for None
BuildDimensionFilter(a) ==
    LET df == Get(a, "dimensionFilter")
    IN IF ~Truthy(df) THEN NoFilter
       ELSE IF InValue(df) /\ Truthy(df["eventName"])
       THEN [field_name |-> "eventName", value |-> df["eventName"].s,
             match_type |-> "EXACT"]
       ELSE NoFilter

DEFAULT_LIMIT == 1000

\* run_ga4_report, lines 58-67: the exception raised before the backend is
\* called, or NoExc.  The statements run in this order and the first to raise
\* ends the function.
BuildExc(a) ==
    FirstExc(<<
        SubscriptExc(a, "property"),
        IF SubscriptExc(a, "metrics") # NoExc THEN SubscriptExc(a, "metrics")
        ELSE ComprehensionExc(a["metrics"], <<"name">>),
        IF SubscriptExc(a, "dateRanges") # NoExc THEN SubscriptExc(a, "dateRanges")
        ELSE ComprehensionExc(a["dateRanges"], <<"startDate", "endDate">>),
        IF SubscriptExc(a, "property") # NoExc THEN NoExc
        ELSE ComprehensionExc(GetDefault(a, "dimensions", List(<<>>)), <<"name">>),
        IF SubscriptExc(a, "property") # NoExc THEN NoExc
        ELSE IntExc(GetDefault(a, "limit", Num(DEFAULT_LIMIT))),
        IF SubscriptExc(a, "property") # NoExc THEN NoExc
        ELSE BuildDimensionFilterExc(a)
    >>)

NoQuery == [built |-> FALSE]

\* run_ga4_report, lines 58-77: the RunReportRequest, for arguments BuildExc accepts
BuildQuery(a) ==
    [built |-> TRUE,
     property |-> a["property"],
     metrics |-> Names(a["metrics"]),
     dimensions |-> Names(GetDefault(a, "dimensions", List(<<>>))),
     date_ranges |-> a["dateRanges"].items,
     limit |-> IntValue(GetDefault(a, "limit", Num(DEFAULT_LIMIT))),
     dimension_filter |-> BuildDimensionFilter(a)]

----------------------------------------------------------------------------
(* Shared GA4 logic: the backend call and the flattening of its reply *)

NoOutcome == [called |-> FALSE]
Replied(r) == [called |-> TRUE, ok |-> TRUE, reply |-> r]
Failed(e) == [called |-> TRUE, ok |-> FALSE, exc |-> e]

\* str(e)
ExcStr(e) == IF e.exc = "KeyError" THEN "'" \o e.arg \o "'" ELSE e.arg

Min(a, b) == IF a <= b THEN a ELSE b

HeadersMetricsFirst(r) == r.metric_headers \o r.dimension_headers

\* lines 80-82
Headers(r) == r.dimension_headers \o r.metric_headers

\* lines 85-87
RowValues(row) == row.dimension_values \o row.metric_values

\* line 88, {k: v for k, v in zip(headers, vals)}: zip stops at the shorter
\* list and a later pair replaces an earlier one with the same key
ZipDict(headers, vals) ==
    LET n == Min(Len(headers), Len(vals))
    IN [name \in {headers[i] : i \in 1..n} |->
           vals[CHOOSE i \in 1..n :
                    /\ headers[i] = name
                    /\ \A j \in 1..n : headers[j] = name => j <= i]]

\* lines 83-88
FlattenRows(r) ==
    [i \in 1..Len(r.rows) |-> ZipDict(Headers(r), RowValues(r.rows[i]))]

NoResult == [kind |-> "none"]

\* lines 80-90
Flatten(r) ==
    LET rows == FlattenRows(r)
    IN [kind |-> "report", ok |-> TRUE, rowCount |-> Len(rows), rows |-> rows]

----------------------------------------------------------------------------
(* The tool description of GET /tools and tools/list *)

ToolDescriptor ==
    [name |-> "run_report",
     description |-> "Run a GA4 Core (Data API) report.",
     required |-> <<"property", "metrics", "dateRanges">>,
     properties |-> {"property", "metrics", "dimensions", "dateRanges",
                     "limit", "dimensionFilter"}]

ToolList == [kind |-> "tools", tools |-> <<ToolDescriptor>>]

----------------------------------------------------------------------------
(* The handlers' steps as functions of the request *)

InvalidJson == [k |-> "invalid"]

Envelope(id, res, err) ==
    [kind |-> "envelope", id |-> id, result |-> res, error |-> err]

RpcError(id, message) ==
    JSONResponse(Envelope(id, Absent,
                          [k |-> "dict", code |-> 400, message |-> message]), 400)

RpcResult(id, res) == JSONResponse(Envelope(id, res, Absent), 200)

\* x or {}
OrEmptyDict(x) == IF Truthy(x) THEN x ELSE EmptyDict

\* legacy_call, lines 159-163: [done, response, args, steps]
LegacyCallBody(body) ==
    IF body = InvalidJson \/ body.k # "dict"
    THEN [done |-> TRUE, response |-> ServerFault, args |-> Absent,
          steps |-> <<"parse">>]
    ELSE LET tool == Get(body, "toolName")
         IN IF tool # Str("run_report")
            THEN [done |-> TRUE,
                  response |-> HTTPException(400, "Unknown tool: " \o PyStr(tool)),
                  args |-> Absent, steps |-> <<"parse", "check">>]
            ELSE [done |-> FALSE, response |-> NoResponse,
                  args |-> GetDefault(body, "arguments", EmptyDict),
                  steps |-> <<"parse", "check">>]

LegacyCallReturnNoKeyError(exc, res) ==
    IF exc = NoExc THEN JSONResponse(res, 200)
    ELSE HTTPException(400, ExcStr(exc))

\* legacy_call, lines 164-170
LegacyCallReturn(exc, res) ==
    IF exc = NoExc THEN JSONResponse(res, 200)
    ELSE IF exc.exc = "KeyError"
    THEN HTTPException(400, "Missing required field: " \o exc.arg)
    ELSE HTTPException(400, ExcStr(exc))

\* mcp_http, line 190
ReqId(payload) == Get(payload, "id")

\* mcp_http, lines 185-210 and 228-232: [done, response, args, steps]
McpHttpBody(token, header, payload) ==
    IF payload = InvalidJson
    THEN [done |-> TRUE, response |-> HTTPException(400, "Invalid JSON"),
          args |-> Absent, steps |-> <<"parse">>]
    ELSE IF payload.k # "dict"
    THEN [done |-> TRUE, response |-> ServerFault, args |-> Absent,
          steps |-> <<"parse">>]
    ELSE LET req_id == ReqId(payload)
             method == Get(payload, "method")
             params == OrEmptyDict(GetDefault(payload, "params", EmptyDict))
         IN IF ~Truthy(method)
            THEN [done |-> TRUE,
                  response |-> HTTPException(400, "Missing 'method'"),
                  args |-> Absent, steps |-> <<"parse", "check">>]
            ELSE IF method = Str("tools/list")
            THEN [done |-> TRUE,
                  response |-> IF RequireBearer(token, header) # NoResponse
                               THEN RequireBearer(token, header)
                               ELSE RpcResult(req_id, [k |-> "dict", tools |-> ToolList.tools]),
                  args |-> Absent, steps |-> <<"parse", "check", "auth">>]
            ELSE IF method = Str("tools/call")
            THEN IF params.k # "dict"
                 THEN [done |-> TRUE, response |-> ServerFault, args |-> Absent,
                       steps |-> <<"parse", "check">>]
                 ELSE IF Get(params, "name") # Str("run_report")
                 THEN [done |-> TRUE,
                       response |-> RpcError(req_id,
                           "Unknown tool: " \o PyStr(Get(params, "name"))),
                       args |-> Absent, steps |-> <<"parse", "check">>]
                 ELSE [done |-> FALSE, response |-> NoResponse,
                       args |-> OrEmptyDict(GetDefault(params, "arguments", EmptyDict)),
                       steps |-> <<"parse", "check">>]
            ELSE [done |-> TRUE,
                  response |-> RpcError(req_id, "Unknown method: " \o PyStr(method)),
                  args |-> Absent, steps |-> <<"parse", "check">>]

\* mcp_http, lines 211-226
McpHttpReturn(req_id, exc, res) ==
    IF exc = NoExc
    THEN RpcResult(req_id,
             [k |-> "dict", content |-> <<[type |-> "json", data |-> res]>>])
    ELSE IF exc.exc = "KeyError"
    THEN RpcError(req_id, "Missing required field: " \o exc.arg)
    ELSE RpcError(req_id, ExcStr(exc))

\* run_ga4_report as a whole, given what the backend does when called:
\* [raised, result]
RunGa4Report(a, o) ==
    IF BuildExc(a) # NoExc THEN [raised |-> BuildExc(a), result |-> NoResult]
    ELSE IF ~o.ok THEN [raised |-> o.exc, result |-> NoResult]
    ELSE [raised |-> NoExc, result |-> Flatten(o.reply)]

\* POST /call as a whole
LegacyCall(token, header, body, o) ==
    IF RequireBearer(token, header) # NoResponse THEN RequireBearer(token, header)
    ELSE LET b == LegacyCallBody(body)
         IN IF b.done THEN b.response
            ELSE LET r == RunGa4Report(b.args, o)
                 IN LegacyCallReturn(r.raised, r.result)

\* POST / as a whole
McpHttp(token, header, payload, o) ==
    IF RequireBearer(token, header) # NoResponse THEN RequireBearer(token, header)
    ELSE LET b == McpHttpBody(token, header, payload)
         IN IF b.done THEN b.response
            ELSE LET r == RunGa4Report(b.args, o)
                 IN McpHttpReturn(ReqId(payload), r.raised, r.result)

----------------------------------------------------------------------------
(* The inputs: credentials, headers, bodies, backend outcomes *)

Credentials == {Null, Str(""), Str("s3cret"), Str("wrong")}

\* request.headers.get("authorization", ""): "" stands for no header
AuthorizationHeaders ==
    {"", "Basic s3cret", "bearer s3cret", "Bearer s3cret", "Bearer  s3cret ",
     "Bearer wrong"}

Entry(name) == [k |-> "dict", name |-> Str(name)]

PropertyChoices == {Absent, Str("properties/123")}

GoodMetrics == List(<<Entry("activeUsers")>>)

MetricsChoices == {Absent, GoodMetrics, List(<<EmptyDict>>), Num(5)}

GoodDateRanges ==
    List(<<[k |-> "dict", startDate |-> Str("7daysAgo"), endDate |-> Str("yesterday")]>>)

DateRangesChoices ==
    {Absent, GoodDateRanges, List(<<[k |-> "dict", startDate |-> Str("7daysAgo")]>>)}

DimensionsChoices == {Absent, List(<<Entry("date")>>), List(<<EmptyDict>>)}

LimitChoices == {Absent, Num(10), Str("25"), Str("abc")}

DimensionFilterChoices ==
    {Absent, EmptyDict,
     [k |-> "dict", eventName |-> Str("purchase")],
     [k |-> "dict", eventName |-> Str("")],
     [k |-> "dict", pagePath |-> Str("/home")],
     List(<<Str("eventName")>>), Str("purchase"), Num(5)}

ArgumentsDict(p, m, r, d, l, f) ==
    [k |-> "dict", property |-> p, metrics |-> m, dateRanges |-> r,
     dimensions |-> d, limit |-> l, dimensionFilter |-> f]

\* Every combination of the required fields, and with them in place every
\* combination of the optional ones
ArgumentDicts ==
    {ArgumentsDict(p, m, r, Absent, Absent, f) :
        p \in PropertyChoices, m \in MetricsChoices, r \in DateRangesChoices,
        f \in {Absent, Num(5)}}
    \cup
    {ArgumentsDict(Str("properties/123"), GoodMetrics, GoodDateRanges, d, l, f) :
        d \in DimensionsChoices, l \in LimitChoices, f \in DimensionFilterChoices}

\* The values of the arguments field: no field, null, values that are not
\* objects, and objects
ArgumentsChoices ==
    {Absent, Null, List(<<>>), Str("x"), Num(5)} \cup ArgumentDicts

ToolNames == {Absent, Str("run_report"), Str("bogus")}

\* Bodies no handler can read as an object: no JSON at all, JSON that is no object
UnreadableBodies == {InvalidJson, List(<<>>)}

CallBodies ==
    UnreadableBodies \cup
    {[k |-> "dict", toolName |-> t, arguments |-> a] :
        t \in ToolNames, a \in ArgumentsChoices}

RequestIds == {Absent, Str("1"), Num(7)}

ParamsChoices ==
    {Absent, Null, Str("x")} \cup
    {[k |-> "dict", name |-> t, arguments |-> a] :
        t \in ToolNames, a \in ArgumentsChoices}

OtherMethods == {Absent, Str(""), Str("tools/list"), Str("resources/list")}

RpcBodies ==
    UnreadableBodies \cup
    {[k |-> "dict", id |-> i, method |-> Str("tools/call"), params |-> p] :
        i \in RequestIds, p \in ParamsChoices}
    \cup
    {[k |-> "dict", id |-> i, method |-> m, params |-> p] :
        i \in RequestIds, m \in OtherMethods, p \in {Absent, Str("x")}}

NoBody == [k |-> "none"]

Request(endpoint, header, body) ==
    [endpoint |-> endpoint, authorization |-> header, body |-> body]

Requests ==
    {Request("GET /", h, NoBody) : h \in AuthorizationHeaders}
    \cup {Request("GET /tools", h, NoBody) : h \in AuthorizationHeaders}
    \cup {Request("POST /call", h, b) : h \in AuthorizationHeaders, b \in CallBodies}
    \cup {Request("POST /", h, b) : h \in AuthorizationHeaders, b \in RpcBodies}

Row(dims, mets) == [dimension_values |-> dims, metric_values |-> mets]

Reply(dh, mh, rows) ==
    [dimension_headers |-> dh, metric_headers |-> mh, rows |-> rows]

\* What the backend may do when called by the dispatcher's requests
BackendFailures ==
    {[exc |-> "PermissionDenied",
      arg |-> "403 User does not have sufficient permissions for this property."],
     [exc |-> "ServiceUnavailable", arg |-> "503 failed to connect to all addresses"],
     [exc |-> "KeyError", arg |-> "rows"]}

BackendReplies ==
    {Reply(<<"date">>, <<"activeUsers">>, <<>>),
     Reply(<<"date">>, <<"activeUsers">>,
           <<Row(<<"20240101">>, <<"12">>), Row(<<"20240102">>, <<"7">>)>>)}

BackendOutcomes ==
    {Failed(e) : e \in BackendFailures} \cup {Replied(r) : r \in BackendReplies}

----------------------------------------------------------------------------
(* The server *)

Handler(endpoint) ==
    CASE endpoint = "GET /" -> "root"
      [] endpoint = "GET /tools" -> "legacy_tools"
      [] endpoint = "POST /call" -> "legacy_call"
      [] endpoint = "POST /" -> "mcp_http"

NoRequest == Request("", "", NoBody)

Idle ==
    /\ pc = "idle"
    /\ request = NoRequest
    /\ args = Absent
    /\ query = NoQuery
    /\ outcome = NoOutcome
    /\ result = NoResult
    /\ raised = NoExc
    /\ response = NoResponse
    /\ trace = <<>>
    /\ backendCalls = 0

Init ==
    /\ AUTH_TOKEN \in Credentials
    /\ Idle

\* A request arrives and is routed to its handler
Receive ==
    /\ pc = "idle"
    /\ \E r \in Requests :
        /\ request' = r
        /\ pc' = Handler(r.endpoint)
    /\ UNCHANGED <<AUTH_TOKEN, args, query, outcome, result, raised, response,
                   trace, backendCalls>>

\* The response is on the wire; the request's state is dropped
Finish ==
    /\ pc = "done"
    /\ pc' = "idle"
    /\ request' = NoRequest
    /\ args' = Absent
    /\ query' = NoQuery
    /\ outcome' = NoOutcome
    /\ result' = NoResult
    /\ raised' = NoExc
    /\ response' = NoResponse
    /\ trace' = <<>>
    /\ backendCalls' = 0
    /\ UNCHANGED AUTH_TOKEN

\* root, lines 96-98
root ==
    /\ pc = "root"
    /\ response' = JSONResponse([kind |-> "health", status |-> "ok",
                                 service |-> "ga4-mcp-http"], 200)
    /\ trace' = trace \o <<"respond">>
    /\ pc' = "done"
    /\ UNCHANGED <<AUTH_TOKEN, request, args, query, outcome, result, raised,
                   backendCalls>>

\* legacy_tools, lines 104-153
legacy_tools ==
    /\ pc = "legacy_tools"
    /\ LET guard == RequireBearer(AUTH_TOKEN, request.authorization)
       IN response' = IF guard # NoResponse THEN guard
                      ELSE JSONResponse(ToolList, 200)
    /\ trace' = trace \o <<"auth", "respond">>
    /\ pc' = "done"
    /\ UNCHANGED <<AUTH_TOKEN, request, args, query, outcome, result, raised,
                   backendCalls>>

\* legacy_call, line 158, and mcp_http, line 184: require_bearer comes first
require_bearer ==
    /\ pc \in {"legacy_call", "mcp_http"}
    /\ LET guard == RequireBearer(AUTH_TOKEN, request.authorization)
       IN IF guard # NoResponse
          THEN /\ response' = guard
               /\ trace' = trace \o <<"auth", "respond">>
               /\ pc' = "done"
          ELSE /\ response' = response
               /\ trace' = trace \o <<"auth">>
               /\ pc' = IF pc = "legacy_call" THEN "legacy_call_body"
                        ELSE "mcp_http_body"
    /\ UNCHANGED <<AUTH_TOKEN, request, args, query, outcome, result, raised,
                   backendCalls>>

\* legacy_call, lines 159-163
legacy_call_body ==
    /\ pc = "legacy_call_body"
    /\ LET b == LegacyCallBody(request.body)
       IN /\ trace' = trace \o b.steps \o (IF b.done THEN <<"respond">> ELSE <<>>)
          /\ response' = b.response
          /\ args' = b.args
          /\ pc' = IF b.done THEN "done" ELSE "run_ga4_report"
    /\ UNCHANGED <<AUTH_TOKEN, request, query, outcome, result, raised,
                   backendCalls>>

\* mcp_http, lines 185-210 and 228-232
mcp_http_body ==
    /\ pc = "mcp_http_body"
    /\ LET b == McpHttpBody(AUTH_TOKEN, request.authorization, request.body)
       IN /\ trace' = trace \o b.steps \o (IF b.done THEN <<"respond">> ELSE <<>>)
          /\ response' = b.response
          /\ args' = b.args
          /\ pc' = IF b.done THEN "done" ELSE "run_ga4_report"
    /\ UNCHANGED <<AUTH_TOKEN, request, query, outcome, result, raised,
                   backendCalls>>

\* run_ga4_report, lines 58-77: the query is built, or an exception leaves
\* the function
run_ga4_report ==
    /\ pc = "run_ga4_report"
    /\ trace' = trace \o <<"validate">>
    /\ IF BuildExc(args) # NoExc
       THEN /\ raised' = BuildExc(args)
            /\ query' = query
            /\ pc' = "except"
       ELSE /\ raised' = raised
            /\ query' = BuildQuery(args)
            /\ pc' = "run_report"
    /\ UNCHANGED <<AUTH_TOKEN, request, args, outcome, result, response,
                   backendCalls>>

run_report_retry ==
    /\ pc = "run_report"
    /\ backendCalls' = backendCalls + 1
    /\ trace' = trace \o <<"backend">>
    /\ \E o \in BackendOutcomes :
        /\ outcome' = o
        /\ raised' = IF o.ok \/ backendCalls < 1 THEN raised ELSE o.exc
        /\ pc' = IF o.ok THEN "flatten"
                 ELSE IF backendCalls < 1 THEN "run_report"
                 ELSE "except"
    /\ UNCHANGED <<AUTH_TOKEN, request, args, query, result, response>>

\* run_ga4_report, lines 69-78: the client and the request are made and the
\* backend is called; it replies or the call raises
run_report ==
    /\ pc = "run_report"
    /\ backendCalls' = backendCalls + 1
    /\ trace' = trace \o <<"backend">>
    /\ \E o \in BackendOutcomes :
        /\ outcome' = o
        /\ raised' = IF o.ok THEN raised ELSE o.exc
        /\ pc' = IF o.ok THEN "flatten" ELSE "except"
    /\ UNCHANGED <<AUTH_TOKEN, request, args, query, result, response>>

\* run_ga4_report, lines 80-90
flatten ==
    /\ pc = "flatten"
    /\ result' = Flatten(outcome.reply)
    /\ trace' = trace \o <<"flatten">>
    /\ pc' = "return"
    /\ UNCHANGED <<AUTH_TOKEN, request, args, query, outcome, raised, response,
                   backendCalls>>

\* legacy_call, lines 164-170, and mcp_http, lines 211-226: the result or the
\* exception of run_ga4_report in the handler's framing
respond ==
    /\ pc \in {"return", "except"}
    /\ response' = IF request.endpoint = "POST /call"
                   THEN LegacyCallReturn(raised, result)
                   ELSE McpHttpReturn(ReqId(request.body), raised, result)
    /\ trace' = trace \o <<"respond">>
    /\ pc' = "done"
    /\ UNCHANGED <<AUTH_TOKEN, request, args, query, outcome, result, raised,
                   backendCalls>>

Next ==
    \/ Receive
    \/ root
    \/ legacy_tools
    \/ require_bearer
    \/ legacy_call_body
    \/ mcp_http_body
    \/ run_ga4_report
    \/ run_report
    \/ flatten
    \/ respond
    \/ Finish

Spec == Init /\ [][Next]_vars

----------------------------------------------------------------------------
(* The flattening on its own: the server from the moment the backend has   *)
(* replied to a valid run_report call, for every reply within the bounds   *)

MaxRows == 2

SeqsUpTo(S, n) == UNION {[1..m -> S] : m \in 0..n}

\* The header lists a reply may carry; "date" may come both as a dimension and
\* as a metric header
DimensionHeaderLists == {<<>>, <<"date">>, <<"date", "city">>}

MetricHeaderLists == {<<>>, <<"users">>, <<"date">>, <<"users", "sessions">>}

CellValues == {"a", "b"}

\* Rows for n dimension headers and k metric headers: rows that carry a value
\* for every header, and rows whose metric values are missing
RowsFor(n, k) ==
    {Row(d, m) : d \in [1..n -> CellValues],
                 m \in [1..k -> CellValues] \cup {<<>>}}

ValidArguments ==
    ArgumentsDict(Str("properties/123"), GoodMetrics, GoodDateRanges,
                  List(<<Entry("date")>>), Absent, Absent)

ValidCalls ==
    {Request("POST /call", "Bearer s3cret",
             [k |-> "dict", toolName |-> Str("run_report"), arguments |-> ValidArguments]),
     Request("POST /", "Bearer s3cret",
             [k |-> "dict", id |-> Str("1"), method |-> Str("tools/call"),
              params |-> [k |-> "dict", name |-> Str("run_report"),
                          arguments |-> ValidArguments]])}

InitFlatten ==
    /\ AUTH_TOKEN = Str("s3cret")
    /\ request \in ValidCalls
    /\ pc = "flatten"
    /\ args = ValidArguments
    /\ query = BuildQuery(ValidArguments)
    /\ \E dh \in DimensionHeaderLists, mh \in MetricHeaderLists :
        \E rows \in SeqsUpTo(RowsFor(Len(dh), Len(mh)), MaxRows) :
            outcome = Replied(Reply(dh, mh, rows))
    /\ result = NoResult
    /\ raised = NoExc
    /\ response = NoResponse
    /\ trace = <<"auth", "parse", "check", "validate", "backend">>
    /\ backendCalls = 1

NextFlatten ==
    \/ flatten
    \/ respond

SpecFlatten == InitFlatten /\ [][NextFlatten]_vars

----------------------------------------------------------------------------
(* Vocabulary of the properties, stated on the request and the response    *)
(* alone                                                                   *)

GuardedEndpoints == {"GET /tools", "POST /call", "POST /"}

Answered == pc = "done"

HasBearerPrefix == StartsWith(request.authorization, "Bearer ")

PresentedToken == Strip(SubSeq(request.authorization, 8, Len(request.authorization)))

Configured == AUTH_TOKEN # Null /\ AUTH_TOKEN # Str("")

AuthPasses == Configured /\ HasBearerPrefix /\ PresentedToken = AUTH_TOKEN.s

\* The request is a run_report call in one of the two framings
RestRunReport ==
    /\ request.endpoint = "POST /call"
    /\ request.body.k = "dict"
    /\ request.body.toolName = Str("run_report")

RpcRunReport ==
    /\ request.endpoint = "POST /"
    /\ request.body.k = "dict"
    /\ request.body.method = Str("tools/call")
    /\ request.body.params.k = "dict"
    /\ request.body.params.name = Str("run_report")

\* The arguments field of a run_report call as sent; no field reads as {}
SentArguments ==
    LET a == IF request.endpoint = "POST /call" THEN request.body.arguments
             ELSE request.body.params.arguments
    IN IF a = Absent THEN EmptyDict ELSE a

RequiredFields == <<"property", "metrics", "dateRanges">>

MissingRequired(a) == {i \in 1..3 : ~Has(a, RequiredFields[i])}

FirstMissing(a) ==
    RequiredFields[CHOOSE i \in MissingRequired(a) : \A j \in MissingRequired(a) : i <= j]

\* The message of a failure: the REST detail, the RPC error.message
Message == IF request.endpoint = "POST /call" THEN response.body.detail
           ELSE response.body.error.message

\* The report of a success: the REST body, the RPC result.content[0].data
Report == IF request.endpoint = "POST /call" THEN response.body
          ELSE response.body.result.content[1].data

Occurrences(step) == {i \in 1..Len(trace) : trace[i] = step}

----------------------------------------------------------------------------
(* C1 *)

\* C1: on GET /tools, POST /call and POST / the bearer check is the first step
\* and decides in the order: no credential -> 500, no "Bearer " prefix -> 401,
\* trimmed token unequal to the credential -> 401, else the handler goes on.
\* When it fails, nothing else is done for the request (no parse, no tool or
\* method check, no backend call) and the response is a function of the
\* credential and the header.
C1_AuthGuardFirst ==
    /\ (request.endpoint \in GuardedEndpoints /\ trace # <<>>) =>
           /\ trace[1] = "auth"
           /\ Len(trace) > 2 => AuthPasses
    /\ (Answered /\ request.endpoint \in GuardedEndpoints) =>
           IF ~Configured
           THEN /\ response = HTTPException(500, "Server missing MCP_AUTH_TOKEN")
                /\ trace = <<"auth", "respond">>
                /\ backendCalls = 0 /\ args = Absent /\ ~outcome.called
           ELSE IF ~HasBearerPrefix
           THEN /\ response = HTTPException(401, "Missing bearer token")
                /\ trace = <<"auth", "respond">>
                /\ backendCalls = 0 /\ args = Absent /\ ~outcome.called
           ELSE IF PresentedToken # AUTH_TOKEN.s
           THEN /\ response = HTTPException(401, "Invalid token")
                /\ trace = <<"auth", "respond">>
                /\ backendCalls = 0 /\ args = Absent /\ ~outcome.called
           ELSE IF request.endpoint = "GET /tools"
           THEN response.status = 200
           ELSE trace[2] = "parse"

\* A POST / tools/call with a readable body is refused for its token: 401, and
\* nothing but the bearer check ran
C1_Witness ==
    /\ Answered
    /\ request.endpoint = "POST /"
    /\ request.body.k = "dict"
    /\ AUTH_TOKEN = Str("s3cret")
    /\ request.authorization = "Bearer wrong"
    /\ response.status = 401
    /\ trace = <<"auth", "respond">>

----------------------------------------------------------------------------
(* C7 *)

\* C7 as stated: a request with "Authorization: Bearer wrong" gets 401 on every
\* endpoint, GET / included (on a server whose credential is "s3cret")
C7_Original ==
    (Answered /\ request.authorization = "Bearer wrong" /\ AUTH_TOKEN = Str("s3cret"))
        => response.status = 401

\* C7 amended: a request with "Authorization: Bearer wrong" gets 401 on the
\* endpoints that check the bearer (GET /tools, POST /call, POST /) when the
\* server's credential is configured and is not "wrong"; GET / checks nothing
\* and answers 200
C7_Amended ==
    (Answered /\ request.authorization = "Bearer wrong") =>
        IF request.endpoint = "GET /" THEN response.status = 200
        ELSE (Configured /\ AUTH_TOKEN # Str("wrong")) => response.status = 401

C7_Witness ==
    /\ Answered
    /\ request.authorization = "Bearer wrong"
    /\ request.endpoint = "POST /call"
    /\ AUTH_TOKEN = Str("s3cret")
    /\ response.status = 401

----------------------------------------------------------------------------
(* C9 *)

StepRank(step) ==
    CASE step = "auth" -> 1 [] step = "parse" -> 2 [] step = "check" -> 3
      [] step = "validate" -> 4 [] step = "backend" -> 5
      [] step = "flatten" -> 6 [] step = "respond" -> 7

\* Scenario A's arguments: the three required fields, well formed
ScenarioA ==
    ArgumentsDict(Str("properties/123"), GoodMetrics, GoodDateRanges,
                  Absent, Absent, Absent)

----------------------------------------------------------------------------
(* C2 *)

\* The value is a list of objects that each hold a string "name"
NamedEntries(v) ==
    /\ v.k = "list"
    /\ \A i \in 1..Len(v.items) :
           /\ v.items[i].k = "dict"
           /\ Has(v.items[i], "name")
           /\ v.items[i]["name"].k = "str"

\* A run_report call that passed the bearer check and whose arguments are an
\* object lacking property, metrics or dateRanges has been answered
C2_Case ==
    /\ Answered
    /\ AuthPasses
    /\ RestRunReport \/ RpcRunReport
    /\ SentArguments.k = "dict"
    /\ MissingRequired(SentArguments) # {}

\* C2 as stated: such a call fails with 400, the message names a key that is
\* absent, and the backend is not called
C2_Original ==
    C2_Case =>
        /\ response.status = 400
        /\ backendCalls = 0
        /\ \E i \in MissingRequired(SentArguments) :
               Message = "Missing required field: " \o RequiredFields[i]

\* C2 amended: such a call fails with 400 and the backend is not called; the
\* message is "Missing required field: <f>" with <f> the first absent key in
\* the order property, metrics, dateRanges, provided that, when <f> is
\* dateRanges, metrics is a list of objects that each hold a string "name" (the fields
\* are read in that order and the first fault found is the one reported)
C2_Amended ==
    C2_Case =>
        /\ response.status = 400
        /\ backendCalls = 0
        /\ (FirstMissing(SentArguments) = "dateRanges"
                => NamedEntries(SentArguments["metrics"]))
             => Message = "Missing required field: " \o FirstMissing(SentArguments)

\* Scenario B: only dateRanges is missing, and the message names it
C2_Witness ==
    /\ C2_Case
    /\ MissingRequired(SentArguments) = {3}
    /\ NamedEntries(SentArguments["metrics"])
    /\ request.endpoint = "POST /call"
    /\ response = HTTPException(400, "Missing required field: dateRanges")

----------------------------------------------------------------------------
(* C10 *)

Injective(seq) == \A i, j \in 1..Len(seq) : seq[i] = seq[j] => i = j

\* Row i of the reply carries one value for every header
FullRow(r, i) ==
    /\ Len(r.rows[i].dimension_values) = Len(r.dimension_headers)
    /\ Len(r.rows[i].metric_values) = Len(r.metric_headers)

\* Row i of the report is {d1:v1,..,dn:vn,m1:w1,..,mk:wk} and has n+k entries
RowLaw(r, rep, i) ==
    LET n == Len(r.dimension_headers)
        k == Len(r.metric_headers)
    IN /\ Cardinality(DOMAIN rep.rows[i]) = n + k
       /\ \A j \in 1..n :
              /\ r.dimension_headers[j] \in DOMAIN rep.rows[i]
              /\ rep.rows[i][r.dimension_headers[j]] = r.rows[i].dimension_values[j]
       /\ \A j \in 1..k :
              /\ r.metric_headers[j] \in DOMAIN rep.rows[i]
              /\ rep.rows[i][r.metric_headers[j]] = r.rows[i].metric_values[j]

\* C10 as stated: whatever the headers, every row that carries a value for
\* every header becomes the mapping of header to value with n+k entries, in the
\* backend's order, and rowCount is the number of rows
C10_Original ==
    (Answered /\ outcome.called /\ outcome.ok) =>
        /\ response.status = 200
        /\ Report.rowCount = Len(Report.rows)
        /\ Len(Report.rows) = Len(outcome.reply.rows)
        /\ \A i \in 1..Len(outcome.reply.rows) :
               FullRow(outcome.reply, i) => RowLaw(outcome.reply, Report, i)

\* C10 amended: when the header names of the reply (dimension headers followed
\* by metric headers) are pairwise distinct, every row that carries a value for
\* every header becomes the mapping of header to value with n+k entries, at
\* its place in the backend's order; in every case rowCount is the number of
\* rows returned, which is the number of rows of the reply
C10_Amended ==
    (Answered /\ outcome.called /\ outcome.ok) =>
        /\ response.status = 200
        /\ Report.rowCount = Len(Report.rows)
        /\ Len(Report.rows) = Len(outcome.reply.rows)
        /\ Injective(outcome.reply.dimension_headers \o outcome.reply.metric_headers) =>
               \A i \in 1..Len(outcome.reply.rows) :
                   FullRow(outcome.reply, i) => RowLaw(outcome.reply, Report, i)

\* Two full rows with two dimensions and a metric, differing in their values,
\* come back in order
C10_Witness ==
    /\ Answered
    /\ outcome.called /\ outcome.ok
    /\ outcome.reply.dimension_headers = <<"date", "city">>
    /\ outcome.reply.metric_headers = <<"users">>
    /\ outcome.reply.rows = <<Row(<<"a", "b">>, <<"b">>), Row(<<"b", "b">>, <<"a">>)>>
    /\ Report.rowCount = 2
    /\ Report.rows[1] = [h \in {"date", "city", "users"} |->
                             IF h = "date" THEN "a" ELSE "b"]
    /\ Report.rows[2] = [h \in {"date", "city", "users"} |->
                             IF h = "users" THEN "a" ELSE "b"]

----------------------------------------------------------------------------
(* C3 *)

\* The POST / request that carries the same tool name and arguments
RpcCounterpart(id) ==
    [k |-> "dict", id |-> id, method |-> Str("tools/call"),
     params |-> [k |-> "dict", name |-> request.body.toolName,
                 arguments |-> request.body.arguments]]

\* C3: a POST /call {toolName, arguments} and the POST / tools/call with the
\* same name and arguments, under the same backend outcome, have the same
\* status, the same failure message, and on success the same report
C3_FramingsAgree ==
    (Answered /\ AuthPasses /\ request.endpoint = "POST /call"
       /\ request.body.k = "dict") =>
        \A id \in RequestIds :
        \A o \in (IF outcome.called THEN {outcome} ELSE BackendOutcomes) :
            LET rpc == McpHttp(AUTH_TOKEN, request.authorization, RpcCounterpart(id), o)
            IN /\ rpc.status = response.status
               /\ IF response.status = 200
                  THEN rpc.body.result.content[1].data = response.body
                  ELSE rpc.body.error.message = response.body.detail

----------------------------------------------------------------------------
(* C4 *)

\* The filter value holds no eventName entry: it is no object with that key,
\* no list with that item, no string with that text
NoEventNameEntry(df) ==
    CASE df.k = "dict" -> ~Has(df, "eventName")
      [] df.k = "list" -> \A i \in 1..Len(df.items) : df.items[i] # Str("eventName")
      [] df.k = "str" -> ~Contains(df.s, "eventName")
      [] OTHER -> TRUE

\* C4: arguments that are well formed but for a dimensionFilter without an
\* eventName entry, whatever its shape, are built into a query with no filter
C4_UnrecognizedFilterIgnored ==
    (/\ Occurrences("validate") # {}
     /\ args.k = "dict"
     /\ GetDefault(args, "property", Absent) = Str("properties/123")
     /\ GetDefault(args, "metrics", Absent) = GoodMetrics
     /\ GetDefault(args, "dateRanges", Absent) = GoodDateRanges
     /\ GetDefault(args, "dimensions", Absent) \in {Absent, List(<<Entry("date")>>)}
     /\ GetDefault(args, "limit", Absent) \in {Absent, Num(10), Str("25")}
     /\ Has(args, "dimensionFilter")
     /\ NoEventNameEntry(args["dimensionFilter"])) =>
        /\ query.built
        /\ query.dimension_filter = NoFilter

----------------------------------------------------------------------------
(* C5 *)

\* C5: a POST / request that passed the bearer check and carries a method is
\* answered with an envelope echoing its id (null for none) that holds either
\* result, with status 200, or error with code 400, with status 400
C5_EnvelopeAlways ==
    (Answered /\ AuthPasses /\ request.endpoint = "POST /"
       /\ request.body.k = "dict" /\ Truthy(request.body.method)) =>
        /\ response.body.kind = "envelope"
        /\ response.body.id = (IF request.body.id = Absent THEN Null ELSE request.body.id)
        /\ (response.body.result = Absent) # (response.body.error = Absent)
        /\ response.status = 200 <=> response.body.error = Absent
        /\ response.body.error # Absent =>
               response.status = 400 /\ response.body.error.code = 400

----------------------------------------------------------------------------
(* C6 *)

\* C6: every status is 200, 400, 401 or 500, and 500 is answered only by a
\* server with no credential
C6_NoUnhandledFault ==
    Answered =>
        /\ response.status \in {200, 400, 401, 500}
        /\ response.status = 500 => ~Configured

----------------------------------------------------------------------------
(* C8 *)

\* C8: a failure of the backend call is answered 400 with the failure's own
\* text as the message, and never as a missing field
C8_BackendMessageVerbatim ==
    (Answered /\ outcome.called /\ ~outcome.ok) =>
        /\ response.status = 400
        /\ Message = ExcStr(outcome.exc)
        /\ ~StartsWith(Message, "Missing required field: ")

----------------------------------------------------------------------------
(* Consistency of the model: the steps compose to the handlers as a whole *)

StepsCompose ==
    (Answered /\ request.endpoint \in {"POST /call", "POST /"}) =>
        \A o \in (IF outcome.called THEN {outcome} ELSE BackendOutcomes) :
            response = IF request.endpoint = "POST /call"
                       THEN LegacyCall(AUTH_TOKEN, request.authorization, request.body, o)
                       ELSE McpHttp(AUTH_TOKEN, request.authorization, request.body, o)

=============================================================================
